---- MODULE Spec2Model ----
(***************************************************************************)
(* Model of explore/finance/scrape.ts: the three extractors getEvents,     *)
(* getApplication and getPeef, run over a parsed HTML document.            *)
(*                                                                         *)
(* A text is a sequence of one-character strings, so that trim, slice,     *)
(* split, replace and startsWith are computed character by character.      *)
(* A parsed document is a tree of element and text nodes; the lookups of   *)
(* the parser (by id, by tag, by class) walk it in document order.         *)
(***************************************************************************)
EXTENDS Integers, Sequences, FiniteSets, TLC

VARIABLES
  fn,         \* the extractor that runs
  doc,        \* the root of the parsed document
  pc,         \* the loop the extractor is in
  list, i,    \* the array the current for-loop walks and the next index in it
  items, j,   \* children(dl) of the current definition list and the index in it
  results,    \* getEvents: the Event[] under construction
  questions,  \* getApplication / getPeef: the questions record
  costs,      \* getApplication: the Cost[] under construction
  documents,  \* getApplication / getPeef: the Document[] under construction
  outcome,    \* "running", "returned" or "threw"
  ret         \* the value handed to the caller (NoValue until a return)

vars == <<fn, doc, pc, list, i, items, j, results, questions, costs,
          documents, outcome, ret>>

(***************************************************************************)
(* Bounds of the explored documents.                                       *)
(***************************************************************************)
MaxRows == 2        \* rows of a results table
MaxCells == 8       \* cells of a results row
MaxBtns == 2        \* action buttons of a results row
MaxDlNodes == 6     \* definition lists and their items, counted together
MaxCostRows == 2    \* rows of a cost table
MaxAnchors == 2     \* anchors of a page
MaxFieldNodes == 5  \* form groups and their child nodes, counted together

(***************************************************************************)
(* String primitives of JavaScript, on sequences of characters.            *)
(***************************************************************************)
WhiteSpace == {" ", "\n", "\r", "\t"}
Digits == {"0", "1", "2", "3", "4", "5", "6", "7", "8", "9"}

Min(a, b) == IF a < b THEN a ELSE b

RECURSIVE trimStart(_)
trimStart(s) ==
  IF s # <<>> /\ Head(s) \in WhiteSpace THEN trimStart(Tail(s)) ELSE s

RECURSIVE trimEnd(_)
trimEnd(s) ==
  IF s # <<>> /\ s[Len(s)] \in WhiteSpace
  THEN trimEnd(SubSeq(s, 1, Len(s) - 1))
  ELSE s

\* String.prototype.trim
trim(s) == trimEnd(trimStart(s))

\* String.prototype.slice(from, to) with 0 <= from <= to (0-based, to excluded)
slice(s, from, to) == SubSeq(s, Min(from, Len(s)) + 1, Min(to, Len(s)))

\* String.prototype.slice(from)
sliceFrom(s, from) == SubSeq(s, Min(from, Len(s)) + 1, Len(s))

\* replaceAll('*', '') and replace(/[$,]/g, ''): delete every character of cs
removeAll(s, cs) == SelectSeq(s, LAMBDA c : c \notin cs)

\* split(/\r?\n/)[0]: the text before the first line break
RECURSIVE firstLine(_)
firstLine(s) ==
  IF s = <<>> THEN <<>>
  ELSE IF Head(s) = "\n" THEN <<>>
  ELSE IF Head(s) = "\r" /\ Len(s) >= 2 /\ s[2] = "\n" THEN <<>>
  ELSE <<Head(s)>> \o firstLine(Tail(s))

\* String.prototype.startsWith
startsWith(s, p) == Len(s) >= Len(p) /\ SubSeq(s, 1, Len(p)) = p

DigitVal(c) ==
  CASE c = "0" -> 0 [] c = "1" -> 1 [] c = "2" -> 2 [] c = "3" -> 3
    [] c = "4" -> 4 [] c = "5" -> 5 [] c = "6" -> 6 [] c = "7" -> 7
    [] c = "8" -> 8 [] c = "9" -> 9

RECURSIVE DecimalVal(_)
DecimalVal(s) ==
  IF s = <<>> THEN 0
  ELSE 10 * DecimalVal(SubSeq(s, 1, Len(s) - 1)) + DigitVal(s[Len(s)])

AllDigits(s) == \A k \in 1..Len(s) : s[k] \in Digits

\* A JavaScript number: NaN or a natural number (the texts explored hold no
\* sign, decimal point or exponent).
NaN == [nan |-> TRUE, val |-> 0]
Num(n) == [nan |-> FALSE, val |-> n]

\* Unary plus on a string (ToNumber): surrounding white space is ignored, the
\* empty string is 0, a run of decimal digits is its value, anything else NaN.
ToNumber(s) ==
  LET t == trim(s)
  IN  IF AllDigits(t) THEN Num(DecimalVal(t)) ELSE NaN

\* An optional value of a destructuring pattern or an optional field.
undefinedNumber == [def |-> FALSE, num |-> Num(0)]
SomeNumber(n) == [def |-> TRUE, num |-> n]

(***************************************************************************)
(* new Date(string).  A string of the shape YYYY-MM-DD is the ECMAScript   *)
(* date-time format: a month in 01..12 and a day in 01..31 give a time     *)
(* value (held as its fields), other element values give an invalid date.  *)
(* For any other string the engine falls back to implementation-defined    *)
(* heuristics: the result is an invalid date or some engine-chosen date.   *)
(* The constructor never throws.  (Whether a day past the end of its month *)
(* rolls over or is rejected varies between engines; no text explored has  *)
(* such a day.)                                                            *)
(***************************************************************************)
InvalidDate == [kind |-> "invalid", y |-> 0, m |-> 0, d |-> 0]
ImplDate == [kind |-> "impl", y |-> 0, m |-> 0, d |-> 0]
ValidDate(y, m, d) == [kind |-> "valid", y |-> y, m |-> m, d |-> d]

IsIsoShape(s) ==
  /\ Len(s) = 10
  /\ s[5] = "-" /\ s[8] = "-"
  /\ \A k \in {1, 2, 3, 4, 6, 7, 9, 10} : s[k] \in Digits

DateOutcomes(s) ==
  IF IsIsoShape(s)
  THEN LET y == DecimalVal(SubSeq(s, 1, 4))
           m == DecimalVal(SubSeq(s, 6, 7))
           d == DecimalVal(SubSeq(s, 9, 10))
       IN  IF m \in 1..12 /\ d \in 1..31
           THEN {ValidDate(y, m, d)}
           ELSE {InvalidDate}
  ELSE {InvalidDate, ImplDate}

\* `${t.slice(0, 4)}-${t.slice(4, 6)}-${t.slice(6).split(/\r?\n/)[0]}`
DateString(t) ==
  slice(t, 0, 4) \o <<"-">> \o slice(t, 4, 6) \o <<"-">>
    \o firstLine(sliceFrom(t, 6))

(***************************************************************************)
(* The parsed tree (node-html-parser).  Every node record has the same     *)
(* fields.  An HTMLElement has elem = TRUE, a tag, an id, a class list,    *)
(* the attributes the extractors read and its child nodes; a text node has *)
(* elem = FALSE and its text.                                              *)
(***************************************************************************)
NoAttr == [present |-> FALSE, value |-> <<>>]
Attr(v) == [present |-> TRUE, value |-> v]

Txt(t) ==
  [elem |-> FALSE, tag |-> "#text", id |-> "", class |-> {}, href |-> NoAttr,
   colspan |-> NoAttr, checked |-> NoAttr, text |-> t, childNodes |-> <<>>]

El(tag, kids) ==
  [elem |-> TRUE, tag |-> tag, id |-> "", class |-> {}, href |-> NoAttr,
   colspan |-> NoAttr, checked |-> NoAttr, text |-> <<>>, childNodes |-> kids]

\* The result of a lookup that may find nothing (null / undefined).
Nothing == [found |-> FALSE, node |-> Txt(<<>>)]
Found(n) == [found |-> TRUE, node |-> n]

\* Array.prototype.findLast(node => node instanceof HTMLElement)
findLast(childNodes) ==
  LET idx == {k \in 1..Len(childNodes) : childNodes[k].elem}
  IN  IF idx = {} THEN Nothing
      ELSE Found(childNodes[CHOOSE k \in idx : \A l \in idx : l <= k])

\* function children (element): the element nodes among element.childNodes
children(element) == SelectSeq(element.childNodes, LAMBDA n : n.elem)

\* The element descendants of a list of child nodes, in document order.
RECURSIVE DescendantsOf(_)
DescendantsOf(nodes) ==
  IF nodes = <<>> THEN <<>>
  ELSE (IF Head(nodes).elem
        THEN <<Head(nodes)>> \o DescendantsOf(Head(nodes).childNodes)
        ELSE <<>>) \o DescendantsOf(Tail(nodes))

RECURSIVE TextOf(_)
TextOf(nodes) ==
  IF nodes = <<>> THEN <<>>
  ELSE (IF Head(nodes).elem THEN TextOf(Head(nodes).childNodes)
        ELSE Head(nodes).text) \o TextOf(Tail(nodes))

\* Node.textContent: the text of the node's text descendants, concatenated
textContent(node) == IF node.elem THEN TextOf(node.childNodes) ELSE node.text

First(s) == IF s = <<>> THEN Nothing ELSE Found(s[1])

getElementsByTagName(node, tag) ==
  SelectSeq(DescendantsOf(node.childNodes), LAMBDA n : n.tag = tag)

querySelectorAllClass(node, cls) ==
  SelectSeq(DescendantsOf(node.childNodes), LAMBDA n : cls \in n.class)

\* querySelector('tag') and querySelector('.class'): first match or null
querySelectorTag(node, tag) == First(getElementsByTagName(node, tag))
querySelectorClass(node, cls) == First(querySelectorAllClass(node, cls))

getElementById(node, id) ==
  First(SelectSeq(DescendantsOf(node.childNodes), LAMBDA n : n.id = id))

\* getAttribute(name) for the attributes the extractors read
getAttribute(node, name) ==
  CASE name = "href" -> node.href
    [] name = "colspan" -> node.colspan
    [] name = "checked" -> node.checked

\* Truthiness of an attribute lookup: undefined and '' are falsy
Truthy(attr) == attr.present /\ attr.value # <<>>

SeqMap(f(_), s) == [k \in 1..Len(s) |-> f(s[k])]

RECURSIVE SeqsUpTo(_, _)
SeqsUpTo(S, n) ==
  IF n = 0 THEN {<<>>}
  ELSE LET shorter == SeqsUpTo(S, n - 1)
       IN  shorter \cup
             {Append(s, x) : s \in {t \in shorter : Len(t) = n - 1}, x \in S}

(***************************************************************************)
(* Values handed to the caller.                                            *)
(***************************************************************************)
NoValue ==
  [returned |-> FALSE, events |-> <<>>, questions |-> <<>>, costs |-> <<>>,
   documents |-> <<>>]

\* lib/assert expect(message): raises an error naming the missing structure
expect(message) == "threw"

(***************************************************************************)
(* getEvents                                                               *)
(***************************************************************************)
\* A position of an array destructuring pattern: undefined past the end
Item(texts, k) ==
  IF k <= Len(texts) THEN [def |-> TRUE, text |-> texts[k]]
  ELSE [def |-> FALSE, text |-> <<>>]

\* EvTable with a missing table read as an empty one
EvTableOrEmpty(d) ==
  LET funded == getElementById(d, "FundedTable")
      last == IF funded.found THEN findLast(funded.node.childNodes) ELSE Nothing
  IN  IF last.found THEN last ELSE Found(El("tbody", <<>>))

\* doc.getElementById('FundedTable')?.childNodes.findLast(...)
EvTable(d) ==
  LET funded == getElementById(d, "FundedTable")
  IN  IF funded.found THEN findLast(funded.node.childNodes) ELSE Nothing

\* children(row).map(td => td.textContent.trim())
CellTexts(row) == SeqMap(LAMBDA td : trim(textContent(td)), children(row))

\* EvRowThrows with the updated cell read through optional chaining
EvRowThrowsLax(texts) ==
  \/ ~Item(texts, 1).def
  \/ ~Item(texts, 4).def

\* A method call on an undefined cell raises a TypeError: finId.replaceAll,
\* date.slice and updated.slice are called unconditionally.
EvRowThrows(texts) ==
  \/ ~Item(texts, 1).def
  \/ ~Item(texts, 4).def
  \/ ~Item(texts, 7).def

\* +finId.replaceAll('*', '')
EvFinId(finId) == ToNumber(removeAll(finId, {"*"}))

\* awarded ? +awarded.replace(/[$,]/g, '') : undefined
OptAmount(cell) ==
  IF cell.def /\ cell.text # <<>>
  THEN SomeNumber(ToNumber(removeAll(cell.text, {"$", ","})))
  ELSE undefinedNumber

\* !!row.querySelector('.btn-info')?.getAttribute('href')
EvHasPostEval(row) ==
  LET btn == querySelectorClass(row, "btn-info")
  IN  btn.found /\ Truthy(getAttribute(btn.node, "href"))

EvEvent(row, texts, date, updated) ==
  [finId |-> EvFinId(Item(texts, 1).text),
   organization |-> Item(texts, 2).text,
   name |-> Item(texts, 3).text,
   date |-> date,
   venue |-> Item(texts, 5).text,
   awarded |-> OptAmount(Item(texts, 6)),
   updated |-> updated,
   hasPostEval |-> EvHasPostEval(row)]

\* push as unshift
pushFront(array, value) == <<value>> \o array

\* results.push(event)
push(array, value) == Append(array, value)

Throw ==
  /\ outcome' = "threw"
  /\ pc' = "done"
  /\ UNCHANGED <<fn, doc, list, i, items, j, results, questions, costs,
                 documents, ret>>

EvFindTable ==
  /\ fn = "getEvents" /\ pc = "start"
  /\ LET t == EvTable(doc)
     IN  IF t.found
         THEN /\ list' = children(t.node)
              /\ i' = 1
              /\ pc' = "rows"
              /\ UNCHANGED <<fn, doc, items, j, results, questions, costs,
                             documents, outcome, ret>>
         ELSE /\ outcome' = expect("#FundedTable tbody")
              /\ pc' = "done"
              /\ UNCHANGED <<fn, doc, list, i, items, j, results, questions,
                             costs, documents, ret>>

EvRow ==
  /\ fn = "getEvents" /\ pc = "rows" /\ i <= Len(list)
  /\ LET row == list[i]
         texts == CellTexts(row)
     IN  IF EvRowThrows(texts)
         THEN Throw
         ELSE \E date \in DateOutcomes(DateString(Item(texts, 4).text)),
                 updated \in DateOutcomes(DateString(Item(texts, 7).text)) :
                /\ results' = push(results, EvEvent(row, texts, date, updated))
                /\ i' = i + 1
                /\ UNCHANGED <<fn, doc, pc, list, items, j, questions, costs,
                               documents, outcome, ret>>

EvReturn ==
  /\ fn = "getEvents" /\ pc = "rows" /\ i > Len(list)
  /\ ret' = [NoValue EXCEPT !.returned = TRUE, !.events = results]
  /\ outcome' = "returned"
  /\ pc' = "done"
  /\ UNCHANGED <<fn, doc, list, i, items, j, results, questions, costs,
                 documents>>

(***************************************************************************)
(* getApplication                                                          *)
(***************************************************************************)
Unchecked == <<"u", "n", "c", "h", "e", "c", "k", "e", "d">>

\* AppAnswer with || in place of ??: an empty attribute value reads as absent
AppAnswerFalsy(dd) ==
  LET checkbox == querySelectorTag(dd, "input")
  IN  IF checkbox.found
      THEN (IF Truthy(getAttribute(checkbox.node, "checked"))
            THEN getAttribute(checkbox.node, "checked").value
            ELSE Unchecked)
      ELSE trim(textContent(dd))

\* checkbox ? checkbox.getAttribute('checked') ?? 'unchecked' : dd
AppAnswer(dd) ==
  LET checkbox == querySelectorTag(dd, "input")
  IN  IF checkbox.found
      THEN (IF getAttribute(checkbox.node, "checked").present
            THEN getAttribute(checkbox.node, "checked").value
            ELSE Unchecked)
      ELSE trim(textContent(dd))

\* setQuestion that keeps the first value of a key
setQuestionFirstWins(record, key, value) ==
  [k \in DOMAIN record \cup {key} |-> IF k \in DOMAIN record THEN record[k] ELSE value]

\* questions[key] = value
setQuestion(record, key, value) ==
  [k \in DOMAIN record \cup {key} |-> IF k = key THEN value ELSE record[k]]

AppStart ==
  /\ fn = "getApplication" /\ pc = "start"
  /\ list' = getElementsByTagName(doc, "dl")
  /\ i' = 1
  /\ pc' = "dl"
  /\ UNCHANGED <<fn, doc, items, j, results, questions, costs, documents,
                 outcome, ret>>

AppDl ==
  /\ fn = "getApplication" /\ pc = "dl" /\ i <= Len(list)
  /\ items' = children(list[i])
  /\ j' = 1
  /\ pc' = "pair"
  /\ UNCHANGED <<fn, doc, list, i, results, questions, costs, documents,
                 outcome, ret>>

\* One turn of the inner loop: items[i] is the term, items[i + 1] the
\* definition; reading textContent of a missing items[i + 1] is a TypeError.
AppPair ==
  /\ fn = "getApplication" /\ pc = "pair" /\ j <= Len(items)
  /\ IF j + 1 > Len(items)
     THEN Throw
     ELSE /\ questions' = setQuestion(questions, trim(textContent(items[j])),
                                      AppAnswer(items[j + 1]))
          /\ j' = j + 2
          /\ UNCHANGED <<fn, doc, pc, list, i, items, results, costs,
                         documents, outcome, ret>>

AppDlDone ==
  /\ fn = "getApplication" /\ pc = "pair" /\ j > Len(items)
  /\ i' = i + 1
  /\ pc' = "dl"
  /\ UNCHANGED <<fn, doc, list, items, j, results, questions, costs,
                 documents, outcome, ret>>

\* doc.querySelector('tbody') ?? expect('tbody')
AppTable(d) == querySelectorTag(d, "tbody")

AppFindTable ==
  /\ fn = "getApplication" /\ pc = "dl" /\ i > Len(list)
  /\ LET t == AppTable(doc)
     IN  IF t.found
         THEN /\ list' = children(t.node)
              /\ i' = 1
              /\ pc' = "costs"
              /\ UNCHANGED <<fn, doc, items, j, results, questions, costs,
                             documents, outcome, ret>>
         ELSE /\ outcome' = expect("tbody")
              /\ pc' = "done"
              /\ UNCHANGED <<fn, doc, list, i, items, j, results, questions,
                             costs, documents, ret>>

\* AppIsTotal testing the presence of the attribute, not its value
AppIsTotalPresent(tds) == getAttribute(tds[1], "colspan").present

\* if (tds[0].getAttribute('colspan')) continue
AppIsTotal(tds) == Truthy(getAttribute(tds[1], "colspan"))

\* tds[0] of a row without cells is undefined, and so are requested and
\* awarded of a row with fewer than four cells: each is a TypeError.
AppRowThrows(tds) ==
  \/ tds = <<>>
  \/ /\ ~AppIsTotal(tds)
     /\ \/ ~Item(tds, 3).def
        \/ ~Item(tds, 4).def

AppCost(texts) ==
  [type |-> Item(texts, 1).text,
   description |-> Item(texts, 2).text,
   requested |-> ToNumber(removeAll(Item(texts, 3).text, {"$", ","})),
   awarded |-> ToNumber(removeAll(Item(texts, 4).text, {"$", ","})),
   appealRequested |-> OptAmount(Item(texts, 5)),
   appealApproved |-> OptAmount(Item(texts, 6))]

AppCostRow ==
  /\ fn = "getApplication" /\ pc = "costs" /\ i <= Len(list)
  /\ LET tds == children(list[i])
     IN  IF AppRowThrows(tds)
         THEN Throw
         ELSE /\ costs' = IF AppIsTotal(tds) THEN costs
                          ELSE push(costs, AppCost(CellTexts(list[i])))
              /\ i' = i + 1
              /\ UNCHANGED <<fn, doc, pc, list, items, j, results, questions,
                             documents, outcome, ret>>

AppCostsDone ==
  /\ fn = "getApplication" /\ pc = "costs" /\ i > Len(list)
  /\ list' = getElementsByTagName(doc, "a")
  /\ i' = 1
  /\ pc' = "anchors"
  /\ UNCHANGED <<fn, doc, items, j, results, questions, costs, documents,
                 outcome, ret>>

(***************************************************************************)
(* The documents loop, written twice in the source (getApplication and     *)
(* getPeef) with the same body.                                            *)
(***************************************************************************)
DownloadPrefix ==
  <<"/", "H", "o", "m", "e", "/", "D", "o", "w", "n", "l", "o", "a", "d",
    "F", "i", "l", "e">>

\* href?.startsWith('/Home/DownloadFile')
IsDownload(a) ==
  /\ getAttribute(a, "href").present
  /\ startsWith(getAttribute(a, "href").value, DownloadPrefix)

\* { name: a.textContent, path: href }
DocumentOf(a) ==
  [name |-> textContent(a), path |-> getAttribute(a, "href").value]

\* AnchorStep that drops an anchor whose path was recorded before
AnchorStepDedup(a, docs) ==
  IF IsDownload(a) /\ \A k \in 1..Len(docs) : docs[k].path # DocumentOf(a).path
  THEN push(docs, DocumentOf(a))
  ELSE docs

AnchorStep(a, docs) == IF IsDownload(a) THEN push(docs, DocumentOf(a)) ELSE docs

AppAnchor ==
  /\ fn = "getApplication" /\ pc = "anchors" /\ i <= Len(list)
  /\ documents' = AnchorStep(list[i], documents)
  /\ i' = i + 1
  /\ UNCHANGED <<fn, doc, pc, list, items, j, results, questions, costs,
                 outcome, ret>>

AppReturn ==
  /\ fn = "getApplication" /\ pc = "anchors" /\ i > Len(list)
  /\ ret' = [NoValue EXCEPT !.returned = TRUE, !.questions = questions,
                            !.costs = costs, !.documents = documents]
  /\ outcome' = "returned"
  /\ pc' = "done"
  /\ UNCHANGED <<fn, doc, list, i, items, j, results, questions, costs,
                 documents>>

(***************************************************************************)
(* getPeef                                                                 *)
(***************************************************************************)
\* field.childNodes.slice(1).find(node => node.nodeType === TEXT_NODE)
\*   ?.text.trim() ?? ''
PeefText(field) ==
  LET rest == SelectSeq(Tail(field.childNodes), LAMBDA n : ~n.elem)
  IN  IF rest = <<>> THEN <<>> ELSE trim(rest[1].text)

\* input ? input.getAttribute('checked') ?? '' : <first text node>
PeefAnswer(field) ==
  LET input == querySelectorTag(field, "input")
  IN  IF input.found
      THEN (IF getAttribute(input.node, "checked").present
            THEN getAttribute(input.node, "checked").value
            ELSE <<>>)
      ELSE PeefText(field)

\* if (field.querySelector('h2')) continue
PeefIsHeading(field) == querySelectorTag(field, "h2").found

\* field.childNodes[1].textContent of a field with fewer than two child
\* nodes reads a property of undefined: a TypeError.
PeefFieldThrows(field) == ~PeefIsHeading(field) /\ Len(field.childNodes) < 2

PeefStart ==
  /\ fn = "getPeef" /\ pc = "start"
  /\ list' = querySelectorAllClass(doc, "form-group")
  /\ i' = 1
  /\ pc' = "fields"
  /\ UNCHANGED <<fn, doc, items, j, results, questions, costs, documents,
                 outcome, ret>>

PeefField ==
  /\ fn = "getPeef" /\ pc = "fields" /\ i <= Len(list)
  /\ LET field == list[i]
     IN  IF PeefFieldThrows(field)
         THEN Throw
         ELSE /\ questions' =
                   IF PeefIsHeading(field) THEN questions
                   ELSE setQuestion(questions, textContent(field.childNodes[2]),
                                    PeefAnswer(field))
              /\ i' = i + 1
              /\ UNCHANGED <<fn, doc, pc, list, items, j, results, costs,
                             documents, outcome, ret>>

PeefFieldsDone ==
  /\ fn = "getPeef" /\ pc = "fields" /\ i > Len(list)
  /\ list' = getElementsByTagName(doc, "a")
  /\ i' = 1
  /\ pc' = "anchors"
  /\ UNCHANGED <<fn, doc, items, j, results, questions, costs, documents,
                 outcome, ret>>

PeefAnchor ==
  /\ fn = "getPeef" /\ pc = "anchors" /\ i <= Len(list)
  /\ documents' = AnchorStep(list[i], documents)
  /\ i' = i + 1
  /\ UNCHANGED <<fn, doc, pc, list, items, j, results, questions, costs,
                 outcome, ret>>

PeefReturn ==
  /\ fn = "getPeef" /\ pc = "anchors" /\ i > Len(list)
  /\ ret' = [NoValue EXCEPT !.returned = TRUE, !.questions = questions,
                            !.documents = documents]
  /\ outcome' = "returned"
  /\ pc' = "done"
  /\ UNCHANGED <<fn, doc, list, i, items, j, results, questions, costs,
                 documents>>

(***************************************************************************)
(* The documents explored.  Each family varies one part of the page and    *)
(* keeps the rest of it fixed.                                             *)
(***************************************************************************)
Newline == Txt(<<"\n">>)

WithId(node, id) == [node EXCEPT !.id = id]
WithClass(node, cls) == [node EXCEPT !.class = cls]
WithHref(node, attr) == [node EXCEPT !.href = attr]
WithColspan(node, attr) == [node EXCEPT !.colspan = attr]
WithChecked(node, attr) == [node EXCEPT !.checked = attr]

Page(body) == El("html", <<El("head", <<>>), Newline, El("body", body)>>)

Td(t) == El("td", <<Txt(t)>>)

\* ---- listing pages
HrefPeef ==
  <<"/", "H", "o", "m", "e", "/", "V", "i", "e", "w", "P", "o", "s", "t",
    "E", "v", "a", "l", "u", "a", "t", "i", "o", "n", "/", "4", "2">>

FinIdMarked == <<" ", "4", "2", "*">>
Date1 == <<"2", "0", "2", "4", "0", "3", "0", "1">>
Upd1 == <<"2", "0", "2", "4", "0", "3", "1", "0", "\n", "M", "o", "n">>
UpdCr == <<"2", "0", "2", "4", "0", "3", "1", "0", "\r", "\n", "M", "o", "n">>
BadMonth == <<"2", "0", "2", "4", "1", "3", "4", "5">>
ShortDate == <<"2", "0", "2", "4", "0", "3">>
Amount500 == <<"$", "5", "0", "0">>
Amount1234 == <<"$", "1", ",", "2", "3", "4">>

\* The cell texts of the reference row; cells past the seventh hold actions.
BaseText(k) ==
  CASE k = 1 -> FinIdMarked
    [] k = 2 -> <<" ", "A">>
    [] k = 3 -> <<"M", " ">>
    [] k = 4 -> Date1
    [] k = 5 -> <<"H">>
    [] k = 6 -> Amount500
    [] k = 7 -> Upd1
    [] OTHER -> <<"\n">>

BaseTexts(n) == [k \in 1..n |-> BaseText(k)]

AltTexts ==
  <<<<"7">>, <<"B">>, <<"N">>, Date1, <<"G">>, <<>>, <<"2", "0", "2", "4", "0", "3", "1", "0">>>>

BtnInfo(attr) == WithHref(WithClass(El("a", <<Txt(<<"P">>)>>), {"btn", "btn-info"}), attr)

BtnSet == {BtnInfo(NoAttr), BtnInfo(Attr(<<>>)), BtnInfo(Attr(HrefPeef))}

\* A table row of the given cell texts, white space between the cells, the
\* action buttons inside a last cell of their own.
ListingRow(texts, btns) ==
  El("tr",
     <<Newline>> \o SeqMap(Td, texts)
       \o (IF btns = <<>> THEN <<>> ELSE <<El("td", <<Newline>> \o btns)>>)
       \o <<Newline>>)

HeadSection == El("thead", <<El("tr", SeqMap(LAMBDA k : El("th", <<Txt(<<"h">>)>>), BaseTexts(7)))>>)

Listing(sections) ==
  Page(<<El("h1", <<Txt(<<"t">>)>>), WithId(El("table", sections), "FundedTable")>>)

ListingBody(rows) == Listing(<<Newline, HeadSection, Newline, El("tbody", rows), Newline>>)

\* pages without the table, or with any short mix of child nodes in it
StructDocs ==
  {Page(<<El("table", <<HeadSection, El("tbody", <<ListingRow(BaseTexts(7), <<>>)>>)>>)>>)}
    \cup {Listing(sections) :
            sections \in SeqsUpTo({Newline, HeadSection,
                                   El("tbody", <<ListingRow(AltTexts, <<>>)>>)}, MaxRows)}

\* tables of rows with 0..MaxCells cells, in any order
CoreRows ==
  {Newline, ListingRow(AltTexts, <<>>)}
    \cup {ListingRow(BaseTexts(n), <<>>) : n \in 0..7}
    \cup {ListingRow(BaseTexts(n - 1), <<BtnInfo(Attr(HrefPeef))>>) : n \in 8..MaxCells}

MultiRowDocs == {ListingBody(rows) : rows \in SeqsUpTo(CoreRows, MaxRows)}

\* one row, one of its texts varied
FieldVariants ==
  {<<1, <<"7">>>>, <<1, <<"a", "b">>>>, <<1, <<"*">>>>, <<1, <<"4", "*", "2">>>>,
   <<4, BadMonth>>, <<4, ShortDate>>, <<4, <<>>>>,
   <<6, <<>>>>, <<6, Amount1234>>, <<6, <<"n", "/", "a">>>>,
   <<7, UpdCr>>, <<7, BadMonth>>, <<7, <<"\n", "2", "0", "2", "4">>>>}

FieldDocs ==
  {ListingBody(<<ListingRow([BaseTexts(7) EXCEPT ![v[1]] = v[2]], <<>>)>>) : v \in FieldVariants}

\* one row, its action buttons varied
BtnDocs ==
  {ListingBody(<<ListingRow(BaseTexts(7), btns)>>) : btns \in SeqsUpTo(BtnSet, MaxBtns)}

ListingDocs == StructDocs \cup MultiRowDocs \cup FieldDocs \cup BtnDocs

\* ---- anchors, shared by the application and post-evaluation pages
HrefDownload9 ==
  <<"/", "H", "o", "m", "e", "/", "D", "o", "w", "n", "l", "o", "a", "d",
    "F", "i", "l", "e", "?", "i", "d", "=", "9">>
HrefView9 ==
  <<"/", "H", "o", "m", "e", "/", "V", "i", "e", "w", "A", "p", "p", "l",
    "i", "c", "a", "t", "i", "o", "n", "/", "9">>
HrefShort ==
  <<"/", "H", "o", "m", "e", "/", "D", "o", "w", "n", "l", "o", "a", "d">>

Anchor(text, attr) == WithHref(El("a", <<Txt(text)>>), attr)

AnchorSet ==
  {Anchor(t, h) : t \in {<<"f">>, <<" ", "f", "\n">>},
                  h \in {NoAttr, Attr(HrefDownload9), Attr(DownloadPrefix),
                         Attr(HrefView9), Attr(HrefShort)}}

\* the anchors sit in list items, at depth
AnchorList(anchors) == El("ul", SeqMap(LAMBDA a : El("li", <<Newline, a>>), anchors))

\* ---- application pages
Dt(label) == El("dt", <<Txt(label)>>)
Dd(text, inputs) == El("dd", <<Txt(text)>> \o inputs)
Input(attr) == WithChecked(El("input", <<>>), attr)
Checked == <<"c", "h", "e", "c", "k", "e", "d">>

TermSet == {Dt(<<"Q">>), Dt(<<" ", "Q", "\n">>), Dt(<<"R">>)}
DefSet ==
  {Dd(<<" ", "b", " ">>, <<>>), Dd(<<"x">>, <<Input(NoAttr)>>),
   Dd(<<"x">>, <<Input(Attr(Checked))>>)}

\* the element children of a dl: terms at odd positions, definitions at even
RECURSIVE DlItems(_)
DlItems(n) ==
  IF n = 0 THEN {<<>>}
  ELSE {Append(s, x) : s \in DlItems(n - 1),
                       x \in IF n % 2 = 1 THEN TermSet ELSE DefSet}

Dl(its) == El("dl", <<Newline>> \o its \o <<Newline>>)

\* sequences of definition lists of at most `budget` nodes in all
RECURSIVE DlLists(_)
DlLists(budget) ==
  {<<>>} \cup
    UNION {{<<Dl(its)>> \o rest : its \in DlItems(n), rest \in DlLists(budget - 1 - n)} :
             n \in 0..(budget - 1)}

\* single definitions of other shapes
DdVariants ==
  {Dd(<<"x">>, <<Input(Attr(<<>>))>>),
   Dd(<<"x">>, <<Input(NoAttr), Input(Attr(Checked))>>),
   Dd(<<>>, <<El("span", <<Txt(<<"y">>), Input(Attr(<<"o", "n">>))>>)>>),
   Dd(Unchecked, <<>>)}

CostRow(cells) == El("tr", <<Newline>> \o cells \o <<Newline>>)

FoodRow ==
  CostRow(<<Td(<<"F", "o", "o", "d">>), Td(<<" ", "p", " ">>), Td(<<"$", "5", "0">>),
            Td(<<"$", "4", "0">>), Td(<<>>), Td(<<" ">>)>>)
TechRow ==
  CostRow(<<Td(<<"T">>), Td(<<"m">>), Td(Amount1234), Td(<<"0">>),
            Td(<<"$", "3", "0">>), Td(<<"$", "2", "0">>)>>)
TotalCell(attr) == WithColspan(Td(<<"T", "o", "t", "a", "l">>), attr)

CostRowSet ==
  {FoodRow, TechRow,
   CostRow(<<TotalCell(Attr(<<"2">>)), Td(<<"$", "5", "0">>), Td(<<"$", "4", "0">>)>>),
   CostRow(<<TotalCell(Attr(<<"2">>)), Td(<<"d">>), Td(<<"$", "5", "0">>),
             Td(<<"$", "4", "0">>), Td(<<>>), Td(<<>>)>>),
   CostRow(<<TotalCell(Attr(<<>>)), Td(<<"d">>), Td(<<"$", "5", "0">>),
             Td(<<"$", "4", "0">>), Td(<<>>), Td(<<>>)>>),
   CostRow(<<TotalCell(Attr(<<>>)), Td(<<"$", "5", "0">>), Td(<<"$", "4", "0">>)>>),
   CostRow(<<TotalCell(NoAttr), Td(<<"d">>), Td(<<"$", "5", "0">>), Td(<<"$", "4", "0">>)>>),
   CostRow(<<Td(<<"F">>), Td(<<"d">>), Td(<<"$", "5", "0">>)>>),
   CostRow(<<>>)}

CostTable(rows) == El("table", <<El("thead", <<>>), El("tbody", <<Newline>> \o rows)>>)

\* a second table after the cost table: only the first tbody is read
OtherTable == CostTable(<<TechRow, TechRow>>)

BaseDls == <<Dl(<<Dt(<<"Q">>), Dd(<<" ", "b", " ">>, <<>>)>>)>>
BaseAnchors == AnchorList(<<Anchor(<<"f">>, Attr(HrefDownload9))>>)

AppPage(dls, tables, anchors) == Page(dls \o tables \o <<anchors>>)

AppDlDocs ==
  {AppPage(dls, <<CostTable(<<FoodRow>>)>>, BaseAnchors) : dls \in DlLists(MaxDlNodes)}
    \cup {AppPage(<<Dl(<<Dt(<<"Q">>), dd>>)>>, <<CostTable(<<FoodRow>>)>>, BaseAnchors) :
            dd \in DdVariants}

AppCostDocs ==
  {AppPage(BaseDls, <<>>, BaseAnchors),
   AppPage(<<Dl(<<Dt(<<"Q">>)>>)>>, <<>>, BaseAnchors)}
    \cup {AppPage(BaseDls, <<CostTable(rows), OtherTable>>, BaseAnchors) :
            rows \in SeqsUpTo(CostRowSet, MaxCostRows)}

AppAnchorDocs ==
  {AppPage(BaseDls, <<CostTable(<<FoodRow>>)>>, AnchorList(anchors)) :
     anchors \in SeqsUpTo(AnchorSet, MaxAnchors)}

AppDocs == AppDlDocs \cup AppCostDocs \cup AppAnchorDocs

\* ---- post-evaluation pages
FieldNodeSet ==
  {Txt(<<" ", "a", " ">>), El("label", <<Txt(<<"Q">>)>>), Input(NoAttr),
   Input(Attr(Checked)), El("h2", <<Txt(<<"B">>)>>)}

FormGroup(nodes) == WithClass(El("div", nodes), {"form-group"})

\* sequences of form groups of at most `budget` nodes in all
RECURSIVE FormGroups(_)
FormGroups(budget) ==
  {<<>>} \cup
    UNION {{<<FormGroup(nodes)>> \o rest :
              nodes \in {s \in SeqsUpTo(FieldNodeSet, n) : Len(s) = n},
              rest \in FormGroups(budget - 1 - n)} : n \in 0..(budget - 1)}

FieldVariantSet ==
  {FormGroup(<<Newline, El("label", <<Txt(<<" ", "Q">>)>>), Newline, Input(Attr(<<>>))>>),
   FormGroup(<<Newline, El("label", <<Txt(<<"Q">>)>>), Txt(<<"\n", " ">>),
               El("div", <<Input(NoAttr)>>), Txt(<<"t">>)>>),
   FormGroup(<<Newline, El("label", <<Txt(<<"Q">>)>>), El("p", <<Txt(<<"e">>)>>)>>),
   FormGroup(<<Newline, El("div", <<El("h2", <<Txt(<<"B">>)>>)>>)>>)}

PeefPage(groups, anchors) == Page(<<El("form", groups), anchors>>)

PeefFieldDocs ==
  {PeefPage(groups, BaseAnchors) : groups \in FormGroups(MaxFieldNodes)}
    \cup {PeefPage(<<g, h>>, BaseAnchors) : g \in FieldVariantSet, h \in FieldVariantSet}

PeefAnchorDocs ==
  {PeefPage(<<FormGroup(<<Newline, El("label", <<Txt(<<"Q">>)>>), Txt(<<" ", "a", " ">>)>>)>>,
            AnchorList(anchors)) : anchors \in SeqsUpTo(AnchorSet, MaxAnchors)}

PeefDocs == PeefFieldDocs \cup PeefAnchorDocs

(***************************************************************************)
(* The specification: one call of one extractor on one document.           *)
(***************************************************************************)
Init ==
  /\ fn \in {"getEvents", "getApplication", "getPeef"}
  /\ doc \in (CASE fn = "getEvents" -> ListingDocs
                [] fn = "getApplication" -> AppDocs
                [] fn = "getPeef" -> PeefDocs)
  /\ pc = "start"
  /\ list = <<>> /\ i = 1
  /\ items = <<>> /\ j = 1
  /\ results = <<>>
  /\ questions = <<>>
  /\ costs = <<>>
  /\ documents = <<>>
  /\ outcome = "running"
  /\ ret = NoValue

Next ==
  \/ EvFindTable \/ EvRow \/ EvReturn
  \/ AppStart \/ AppDl \/ AppPair \/ AppDlDone \/ AppFindTable
  \/ AppCostRow \/ AppCostsDone \/ AppAnchor \/ AppReturn
  \/ PeefStart \/ PeefField \/ PeefFieldsDone \/ PeefAnchor \/ PeefReturn

Spec == Init /\ [][Next]_vars

(***************************************************************************)
(* Properties.                                                             *)
(***************************************************************************)
\* the data rows of the selected table body of the listing page
BodyRows == IF EvTable(doc).found THEN children(EvTable(doc).node) ELSE <<>>

CellCount(row) == Len(children(row))

CellText(row, k) == trim(textContent(children(row)[k]))

\* C1: for a listing page whose results table is present and whose rows all
\* have at least 7 cells, getEvents does not fail and returns exactly one
\* Event per row of the selected table body, in row order (the k-th Event
\* carries the organization, name and venue of the k-th row).
C1_OneEventPerRow ==
  (/\ fn = "getEvents"
   /\ EvTable(doc).found
   /\ \A k \in 1..Len(BodyRows) : CellCount(BodyRows[k]) >= 7)
  => /\ outcome # "threw"
     /\ pc = "rows" => Len(results) = i - 1
     /\ outcome = "returned" =>
          /\ Len(ret.events) = Len(BodyRows)
          /\ \A k \in 1..Len(BodyRows) :
               /\ ret.events[k].organization = CellText(BodyRows[k], 2)
               /\ ret.events[k].name = CellText(BodyRows[k], 3)
               /\ ret.events[k].venue = CellText(BodyRows[k], 5)

C1_Witness ==
  /\ fn = "getEvents" /\ outcome = "returned"
  /\ Len(BodyRows) = 2 /\ Len(ret.events) = 2
  /\ ret.events[1].name # ret.events[2].name

\* C2: getEvents never returns an Event whose finId is NaN or whose date or
\* updated is an invalid timestamp: a row with such a field aborts the call.
C2_FieldParseIsFatal ==
  (fn = "getEvents" /\ outcome = "returned")
  => \A k \in 1..Len(ret.events) :
       /\ ~ret.events[k].finId.nan
       /\ ret.events[k].date.kind # "invalid"
       /\ ret.events[k].updated.kind # "invalid"

\* the listing page has no #FundedTable element, or one without element child
NoResultsTable ==
  LET funded == getElementById(doc, "FundedTable")
  IN  ~funded.found \/ children(funded.node) = <<>>

NoTableBody == getElementsByTagName(doc, "tbody") = <<>>

\* C3: a listing page without results table makes getEvents raise an error,
\* and an application page without table body makes getApplication raise an
\* error; in both cases no loop past the lookup runs and nothing is handed to
\* the caller.
C3_MissingContainerIsFatal ==
  /\ (fn = "getEvents" /\ NoResultsTable)
     => /\ pc \in {"start", "done"}
        /\ pc = "done" => outcome = "threw"
        /\ ret = NoValue
  /\ (fn = "getApplication" /\ NoTableBody)
     => /\ pc \in {"start", "dl", "pair", "done"}
        /\ pc = "done" => outcome = "threw"
        /\ ret = NoValue

C3_Witness ==
  /\ fn = "getApplication" /\ NoTableBody
  /\ outcome = "threw" /\ pc = "done"
  /\ i > Len(list)
  /\ DOMAIN questions # {}
  /\ ret = NoValue

ShortRows == {k \in 1..Len(BodyRows) : CellCount(BodyRows[k]) < 7}

\* C4: a listing row with fewer than 7 cells, at any position, makes getEvents
\* fail: the loop never gets past the first such row, the call ends with an
\* error and no result sequence is handed to the caller.
C4_ShortRowIsFatal ==
  (fn = "getEvents" /\ EvTable(doc).found /\ ShortRows # {})
  => /\ outcome # "returned"
     /\ ret = NoValue
     /\ pc = "done" => outcome = "threw"
     /\ \A k \in ShortRows : i <= k /\ Len(results) < k

C4_Witness ==
  /\ fn = "getEvents" /\ outcome = "threw"
  /\ ShortRows = {2}
  /\ CellCount(BodyRows[2]) = 6
  /\ Len(results) = 1

\* C5: getPeef never raises an error, whatever the form groups of the page.
C5_PeefNeverFails == fn = "getPeef" => outcome # "threw"

\* the rows of the first table body of the application page
CostRows == children(getElementsByTagName(doc, "tbody")[1])

\* the sequence of the type and description texts of the given rows
CostKeys(rows) ==
  [k \in 1..Len(rows) |-> <<CellText(rows[k], 1), CellText(rows[k], 2)>>]

ReturnedCostKeys ==
  [k \in 1..Len(ret.costs) |-> <<ret.costs[k].type, ret.costs[k].description>>]

\* C6 as claimed: the costs returned are, in row order, exactly the rows whose
\* first cell carries no column-span attribute, whatever the attribute value.
C6_SkipAnyColspan ==
  (fn = "getApplication" /\ outcome = "returned")
  => ReturnedCostKeys =
       CostKeys(SelectSeq(CostRows, LAMBDA r : ~children(r)[1].colspan.present))

\* C6 amended: a row whose first cell carries a non-empty column-span value
\* never appears in costs; when getApplication returns, every other row (a
\* first cell without the attribute, or with an empty one) has contributed
\* exactly one CostLine, in row order.
C6_SkipNonEmptyColspan ==
  /\ (fn = "getApplication" /\ pc = "costs")
     => Len(costs) <= i - 1
  /\ (fn = "getApplication" /\ outcome = "returned")
     => ReturnedCostKeys =
          CostKeys(SelectSeq(CostRows,
                             LAMBDA r : ~(/\ children(r)[1].colspan.present
                                          /\ children(r)[1].colspan.value # <<>>)))

C6_Witness ==
  /\ fn = "getApplication" /\ outcome = "returned"
  /\ Len(CostRows) = 2
  /\ children(CostRows[1])[1].colspan = Attr(<<"2">>)
  /\ CellCount(CostRows[1]) = 6
  /\ children(CostRows[2])[1].colspan = Attr(<<>>)
  /\ Len(ret.costs) = 1

\* the anchors whose href starts with '/Home/DownloadFile', in document order
DownloadAnchors ==
  SelectSeq(getElementsByTagName(doc, "a"),
            LAMBDA a : /\ a.href.present
                       /\ Len(a.href.value) >= 18
                       /\ SubSeq(a.href.value, 1, 18) =
                            <<"/", "H", "o", "m", "e", "/", "D", "o", "w", "n",
                              "l", "o", "a", "d", "F", "i", "l", "e">>)

\* C7 as claimed: the documents returned are one entry per download anchor,
\* in document order, with the trimmed anchor text and the raw href.
C7_TrimmedLabels ==
  (fn \in {"getApplication", "getPeef"} /\ outcome = "returned")
  => ret.documents =
       [k \in 1..Len(DownloadAnchors) |->
          [name |-> trim(textContent(DownloadAnchors[k])),
           path |-> DownloadAnchors[k].href.value]]

\* C7 amended: the documents returned are one entry per download anchor, in
\* document order, duplicates kept, with the anchor's text content as it
\* stands (not trimmed) and the raw href.
C7_RawLabels ==
  (fn \in {"getApplication", "getPeef"} /\ outcome = "returned")
  => ret.documents =
       [k \in 1..Len(DownloadAnchors) |->
          [name |-> TextOf(DownloadAnchors[k].childNodes),
           path |-> DownloadAnchors[k].href.value]]

C7_Witness ==
  /\ fn = "getPeef" /\ outcome = "returned"
  /\ Len(getElementsByTagName(doc, "a")) = 2
  /\ Len(ret.documents) = 2
  /\ ret.documents[1].path = ret.documents[2].path
  /\ ret.documents[1].name = <<" ", "f", "\n">>

\* C8: for a field that contains an input, the recorded answer is the value of
\* the checked attribute of the (first) input when the attribute is present;
\* when it is absent getApplication records "unchecked" and getPeef records
\* the empty string.
C8_CheckboxSentinels ==
  /\ (fn = "getApplication" /\ pc = "pair" /\ j > 1)
     => LET inputs == getElementsByTagName(items[j - 1], "input")
            label == trim(textContent(items[j - 2]))
        IN  inputs # <<>> =>
              /\ label \in DOMAIN questions
              /\ questions[label] =
                   IF inputs[1].checked.present THEN inputs[1].checked.value
                   ELSE <<"u", "n", "c", "h", "e", "c", "k", "e", "d">>
  /\ (fn = "getPeef" /\ pc = "fields" /\ i > 1)
     => LET field == list[i - 1]
            inputs == getElementsByTagName(field, "input")
        IN  (inputs # <<>> /\ getElementsByTagName(field, "h2") = <<>>) =>
              /\ textContent(field.childNodes[2]) \in DOMAIN questions
              /\ questions[textContent(field.childNodes[2])] =
                   IF inputs[1].checked.present THEN inputs[1].checked.value
                   ELSE <<>>

C8_Witness ==
  /\ fn = "getApplication" /\ pc = "pair" /\ j > 1
  /\ getElementsByTagName(items[j - 1], "input") # <<>>
  /\ ~getElementsByTagName(items[j - 1], "input")[1].checked.present
  /\ textContent(items[j - 1]) # <<>>
  /\ questions[trim(textContent(items[j - 2]))] =
       <<"u", "n", "c", "h", "e", "c", "k", "e", "d">>

\* the elements of class btn-info inside a row, in document order
InfoButtons(row) == querySelectorAllClass(row, "btn-info")

\* C9: hasPostEval of a returned Event is true exactly when its row contains
\* some btn-info element whose href attribute is present.
C9_AnyButtonWithHref ==
  (fn = "getEvents" /\ outcome = "returned")
  => \A k \in 1..Len(ret.events) :
       ret.events[k].hasPostEval
         <=> \E b \in 1..Len(InfoButtons(BodyRows[k])) :
               InfoButtons(BodyRows[k])[b].href.present

\* the term/definition pairs of the page: <<d, k>> is the k-th pair of the
\* d-th definition list
AllDls == getElementsByTagName(doc, "dl")
PairIndex ==
  UNION {{<<d, k>> : k \in 1..(Len(children(AllDls[d])) \div 2)} : d \in 1..Len(AllDls)}
PairLabel(p) == trim(textContent(children(AllDls[p[1]])[2 * p[2] - 1]))
PairAnswer(p) == AppAnswer(children(AllDls[p[1]])[2 * p[2]])
Later(p, q) == p[1] > q[1] \/ (p[1] = q[1] /\ p[2] >= q[2])

\* C10: once the definition lists are scanned, the keys of questions are
\* exactly the labels of the term/definition pairs, and each label maps to the
\* answer of the last pair with that label, in document order of the lists
\* and of the pairs within a list.
C10_LastOccurrenceWins ==
  (fn = "getApplication" /\ (pc \in {"costs", "anchors"} \/ outcome = "returned"))
  => /\ DOMAIN questions = {PairLabel(p) : p \in PairIndex}
     /\ \A p \in PairIndex :
          (\A q \in PairIndex : PairLabel(q) = PairLabel(p) => Later(p, q))
            => questions[PairLabel(p)] = PairAnswer(p)
     /\ outcome = "returned" => ret.questions = questions

C10_Witness ==
  /\ fn = "getApplication" /\ outcome = "returned"
  /\ \E p, q \in PairIndex :
       /\ p[1] < q[1]
       /\ PairLabel(p) = PairLabel(q)
       /\ PairAnswer(p) # PairAnswer(q)
       /\ ret.questions[PairLabel(p)] = PairAnswer(q)

====
